---- MODULE Spec2Model ----
(***************************************************************************)
(* The 53-tone Pythagorean tuning system of PythagoreanSystem.py and       *)
(* SistemaPitagorico.py: ratio generation by stacked fifths folded into    *)
(* the octave, the sort by the float key numerator / denominator, and the  *)
(* conversion of the sorted ratios to float frequencies.                   *)
(*                                                                         *)
(* Python integers are unbounded and 3^52 needs 83 bits, so the magnitude  *)
(* of an int is a little-endian sequence of LimbBits-bit limbs without     *)
(* leading zero limbs (<<>> is 0), a Fraction is a numerator / denominator *)
(* pair kept in lowest terms by the operations themselves, and a float is  *)
(* a binary64 value sgn * mant * 2^exp with a MantBits-bit mantissa.       *)
(***************************************************************************)
EXTENDS Integers, Sequences, FiniteSets, Bags, TLC

(***************************************************************************)
(* Call by value.  Python evaluates an argument, and the right-hand side   *)
(* of an assignment to a local, once.  Val({e : x \in {v}}) is e with x    *)
(* bound to the value of v, so that v is evaluated once however often e    *)
(* uses x.                                                                 *)
(***************************************************************************)
Val(S) ==
    CHOOSE v \in S : TRUE

(***************************************************************************)
(* Unbounded naturals (the magnitude of a Python int).  Carries and        *)
(* borrows are computed by lookahead rather than by recursion over the     *)
(* limbs, which keeps the evaluation shallow.                              *)
(***************************************************************************)
LimbBits == 15

Base == 2^LimbBits

SetMax(S) ==
    CHOOSE x \in S : \A y \in S : y <= x

\* x without its leading zero limbs
NatNorm(x) ==
    Val({ IF Len(s) = 0 \/ s[Len(s)] # 0 THEN SubSeq(s, 1, Len(s))
          ELSE IF \A i \in 1..Len(s) : s[i] = 0 THEN <<>>
          ELSE SubSeq(s, 1, SetMax({i \in 1..Len(s) : s[i] # 0}))
        : s \in {x \o <<>>} })

\* the magnitude of a small integer 0 <= n < 2^31
NatOf(n) ==
    NatNorm(<<n % Base, (n \div Base) % Base, n \div (Base * Base)>>)

NatLimb(a, i) ==
    IF i <= Len(a) THEN a[i] ELSE 0

NatMax(x, y) ==
    IF x >= y THEN x ELSE y

NatMin(x, y) ==
    IF x <= y THEN x ELSE y

NatAdd(x, y) ==
    Val({ LET n == NatMax(Len(a), Len(b))
              Sum(i) == NatLimb(a, i) + NatLimb(b, i)
              Chain(i) == \E j \in 1..(i - 1) :
                              /\ Sum(j) >= Base
                              /\ \A k \in (j + 1)..(i - 1) : Sum(k) = Base - 1
              Carry(i) == /\ i > 1
                          /\ \/ Sum(i - 1) >= Base
                             \/ Sum(i - 1) = Base - 1 /\ Chain(i - 1)
          IN  NatNorm([i \in 1..(n + 1) |-> (Sum(i) + (IF Carry(i) THEN 1 ELSE 0)) % Base])
        : a \in {x}, b \in {y} })

\* -1, 0 or 1 as x < y, x = y or x > y
NatCmp(x, y) ==
    Val({ IF Len(a) > Len(b) THEN 1
          ELSE IF Len(a) < Len(b) THEN -1
          ELSE IF a = b THEN 0
          ELSE IF a[Len(a)] # b[Len(a)] THEN (IF a[Len(a)] > b[Len(a)] THEN 1 ELSE -1)
          ELSE LET top == SetMax({i \in 1..Len(a) : a[i] # b[i]})
               IN  IF a[top] > b[top] THEN 1 ELSE -1
        : a \in {x}, b \in {y} })

\* x - y for x >= y
NatSub(x, y) ==
    Val({ LET Chain(i) == \E j \in 1..(i - 1) :
                              /\ a[j] < NatLimb(b, j)
                              /\ \A k \in (j + 1)..(i - 1) : a[k] = NatLimb(b, k)
              Borrow(i) == /\ i > 1
                           /\ \/ a[i - 1] < NatLimb(b, i - 1)
                              \/ a[i - 1] = NatLimb(b, i - 1) /\ Chain(i - 1)
          IN  NatNorm([i \in 1..Len(a) |->
                          (a[i] - NatLimb(b, i) - (IF Borrow(i) THEN 1 ELSE 0)) % Base])
        : a \in {x}, b \in {y} })

\* x * Base^w
NatShlLimbs(x, w) ==
    Val({ IF a = <<>> THEN <<>> ELSE [i \in 1..w |-> 0] \o a : a \in {x} })

\* x * y for one limb 0 <= y < Base: the low halves of the limb products
\* plus their high halves one limb up
NatMulSmall(x, y) ==
    Val({ NatAdd([i \in 1..Len(a) |-> (a[i] * k) % Base],
                 [i \in 1..(Len(a) + 1) |-> IF i = 1 THEN 0 ELSE (a[i - 1] * k) \div Base])
        : a \in {x}, k \in {y} })

\* a * (b[from] * Base^(from-1) + ... + b[to] * Base^(to-1))
RECURSIVE NatMulRange(_, _, _, _)
NatMulRange(a, b, from, to) ==
    Val({ IF lo > hi THEN <<>>
          ELSE IF lo = hi THEN NatShlLimbs(NatMulSmall(a, b[lo]), lo - 1)
          ELSE NatAdd(NatMulRange(a, b, lo, (lo + hi) \div 2),
                      NatMulRange(a, b, (lo + hi) \div 2 + 1, hi))
        : lo \in {from}, hi \in {to} })

NatMul(x, y) ==
    Val({ NatMulRange(a, b, 1, Len(b)) : a \in {x}, b \in {y} })

\* x * 2^n
NatShl(x, n) ==
    Val({ NatShlLimbs(NatMulSmall(a, 2^(k % LimbBits)), k \div LimbBits)
        : a \in {x}, k \in {n} })

\* x \div 2^n for 0 <= n < LimbBits
NatShrSmall(x, n) ==
    Val({ NatNorm([i \in 1..Len(a) |->
                      (a[i] \div 2^s) + (NatLimb(a, i + 1) % 2^s) * 2^(LimbBits - s)])
        : a \in {x}, s \in {n} })

\* x \div 2^n
NatShr(x, n) ==
    Val({ IF k \div LimbBits >= Len(a) THEN <<>>
          ELSE NatShrSmall(SubSeq(a, k \div LimbBits + 1, Len(a)), k % LimbBits)
        : a \in {x}, k \in {n} })

\* the number of bits of one limb 0 <= x < Base
SmallBitLength(x) ==
    Val({ CHOOSE k \in 0..LimbBits : 2^k > n /\ (k = 0 \/ 2^(k - 1) <= n) : n \in {x} })

\* the number of bits of x (int.bit_length)
NatBitLength(x) ==
    Val({ IF a = <<>> THEN 0 ELSE LimbBits * (Len(a) - 1) + SmallBitLength(a[Len(a)])
        : a \in {x} })

NatIsEven(x) ==
    Val({ a = <<>> \/ a[1] % 2 = 0 : a \in {x} })

\* x \div y for x < y * Base and y with its top bit set: the quotient limb
\* lies between the estimates from the leading limbs
NatQuoLimb(x, y) ==
    Val({ LET n    == Len(b)
              lead == NatLimb(r, n + 1) * Base + NatLimb(r, n)
              lo   == lead \div (b[n] + 1)
              hi   == NatMin(Base - 1, lead \div b[n])
          IN  CHOOSE d \in lo..hi :
                  /\ d = lo \/ NatCmp(NatMulSmall(b, d), r) <= 0
                  /\ d = hi \/ NatCmp(NatMulSmall(b, d + 1), r) > 0
        : r \in {x}, b \in {y} })

\* one step of the schoolbook long division: st.q and st.r are the quotient
\* limbs and the remainder once the limbs of a above st.i are divided; limb
\* st.i is brought down and divided
NatDivStep(a, b, st) ==
    Val({ Val({ [i |-> st.i - 1,
                 q |-> <<d>> \o st.q,
                 r |-> NatSub(r2, NatMulSmall(b, d))]
              : d \in {NatQuoLimb(r2, b)} })
        : r2 \in {NatNorm(<<a[st.i]>> \o st.r)} })

RECURSIVE NatDivModFrom(_, _, _)
NatDivModFrom(a, b, state) ==
    Val({ IF st.i = 0 THEN [quo |-> NatNorm(st.q), rem |-> st.r]
          ELSE NatDivModFrom(a, b, NatDivStep(a, b, st))
        : st \in {state} })

\* NatDivMod for x >= y, scaled by 2^s so that the top bit of the divisor's
\* leading limb is set
NatDivModScaled(x, y, s) ==
    Val({ Val({ [quo |-> qr.quo, rem |-> NatShrSmall(qr.rem, s)]
              : qr \in {NatDivModFrom(an, bn,
                                      [i |-> Len(an) - Len(bn) + 1,
                                       q |-> <<>>,
                                       r |-> SubSeq(an, Len(an) - Len(bn) + 2, Len(an))])} })
        : an \in {x}, bn \in {y} })

\* quotient and remainder of x by y, y > 0
NatDivMod(x, y) ==
    Val({ IF NatCmp(a, b) < 0 THEN [quo |-> <<>>, rem |-> a]
          ELSE Val({ NatDivModScaled(NatShl(a, s), NatShl(b, s), s)
                   : s \in {LimbBits - SmallBitLength(b[Len(b)])} })
        : a \in {x}, b \in {y} })

\* math.gcd on magnitudes (Euclid)
RECURSIVE NatGcd(_, _)
NatGcd(x, y) ==
    Val({ IF b = <<>> THEN a ELSE NatGcd(b, NatDivMod(a, b).rem) : a \in {x}, b \in {y} })

(***************************************************************************)
(* Python int: sign and magnitude.                                         *)
(***************************************************************************)
IntOf(n) ==
    [sgn |-> IF n < 0 THEN -1 ELSE IF n = 0 THEN 0 ELSE 1,
     mag |-> NatOf(IF n < 0 THEN -n ELSE n)]

IntMul(x, y) ==
    Val({ [sgn |-> a.sgn * b.sgn, mag |-> NatMul(a.mag, b.mag)] : a \in {x}, b \in {y} })

\* x // g for a divisor g > 0 of x
IntExactDiv(x, g) ==
    Val({ [sgn |-> a.sgn, mag |-> NatDivMod(a.mag, g).quo] : a \in {x} })

\* -1, 0 or 1 as x < y, x = y or x > y
IntCmp(x, y) ==
    Val({ IF a.sgn # b.sgn THEN (IF a.sgn < b.sgn THEN -1 ELSE 1)
          ELSE a.sgn * NatCmp(a.mag, b.mag)
        : a \in {x}, b \in {y} })

(***************************************************************************)
(* fractions.Fraction: numerator / denominator in lowest terms,            *)
(* denominator > 0.                                                        *)
(***************************************************************************)
\* Fraction(n, d) for ints n and d > 0: reduced by math.gcd(n, d)
Fraction(n, d) ==
    Val({ [numerator |-> IntExactDiv(n, g), denominator |-> IntExactDiv(d, g)]
        : g \in {NatGcd(n.mag, d.mag)} })

\* an int operand seen as a Rational: k.numerator = k, k.denominator = 1
FractionOfInt(k) ==
    [numerator |-> IntOf(k), denominator |-> IntOf(1)]

\* the reduced cross products of Fraction._mul and Fraction._div:
\* (n1 // g1) * (n2 // g2) over (d1 // g1) * (d2 // g2)
FractionOfCross(n1, n2, d1, d2, g1, g2) ==
    [numerator   |-> IntMul(IntExactDiv(n1, g1), IntExactDiv(n2, g2)),
     denominator |-> IntMul(IntExactDiv(d1, g1), IntExactDiv(d2, g2))]

\* Fraction._mul: cross-reduce by gcd(na, db) and gcd(nb, da), then multiply
FractionMul(x, y) ==
    Val({ Val({ FractionOfCross(a.numerator, b.numerator, b.denominator, a.denominator, g1, g2)
              : g1 \in {NatGcd(a.numerator.mag, b.denominator.mag)},
                g2 \in {NatGcd(b.numerator.mag, a.denominator.mag)} })
        : a \in {x}, b \in {y} })

\* Fraction._div for y > 0: reduce by gcd(na, nb) and gcd(db, da), then
\* n, d = na * db, nb * da
FractionDiv(x, y) ==
    Val({ Val({ FractionOfCross(a.numerator, b.denominator, b.numerator, a.denominator, g1, g2)
              : g1 \in {NatGcd(a.numerator.mag, b.numerator.mag)},
                g2 \in {NatGcd(b.denominator.mag, a.denominator.mag)} })
        : a \in {x}, b \in {y} })

\* Fraction._richcmp: numerators over a common denominator;
\* -1, 0 or 1 as x < y, x = y or x > y
FractionCmp(x, y) ==
    Val({ IntCmp(IntMul(a.numerator, b.denominator), IntMul(a.denominator, b.numerator))
        : a \in {x}, b \in {y} })

(***************************************************************************)
(* Python float (IEEE binary64, normal range): sgn * mant * 2^exp with     *)
(* mant of exactly MantBits bits, or zero.                                 *)
(***************************************************************************)
MantBits == 53

FloatZero ==
    [sgn |-> 0, mant |-> <<>>, exp |-> 0]

\* n * 2^s \div d with its remainder and the divisor used, n > 0 and d > 0
ScaledDivMod(n, d, s) ==
    Val({ Val({ [quo |-> qr.quo, rem |-> qr.rem, den |-> den]
              : qr \in {NatDivMod(IF s >= 0 THEN NatShl(n, s) ELSE n, den)} })
        : den \in {IF s >= 0 THEN d ELSE NatShl(d, -s)} })

\* round-half-to-even of quo + rem / den
RoundHalfEven(x) ==
    Val({ Val({ IF c > 0 \/ (c = 0 /\ ~NatIsEven(qr.quo))
                THEN NatAdd(qr.quo, <<1>>)
                ELSE qr.quo
              : c \in {NatCmp(NatShl(qr.rem, 1), qr.den)} })
        : qr \in {x} })

\* the rounded quotient m of n * 2^s by d as a float, renormalised when the
\* rounding has carried into a further bit
FloatOfRounded(m, s) ==
    IF NatBitLength(m) > MantBits
    THEN [mant |-> NatShr(m, 1), exp |-> 1 - s]
    ELSE [mant |-> m, exp |-> -s]

\* int / int, correctly rounded (long_true_divide), for magnitudes n, d > 0:
\* the shift s0 gives a quotient of MantBits or MantBits + 1 bits
TrueDivMag(n, d) ==
    Val({ Val({ IF NatBitLength(q0.quo) > MantBits
                THEN Val({ FloatOfRounded(m, s0 - 1)
                         : m \in {RoundHalfEven(ScaledDivMod(n, d, s0 - 1))} })
                ELSE Val({ FloatOfRounded(m, s0) : m \in {RoundHalfEven(q0)} })
              : q0 \in {ScaledDivMod(n, d, s0)} })
        : s0 \in {MantBits + NatBitLength(d) - NatBitLength(n)} })

\* numerator / denominator for ints, denominator > 0
TrueDiv(n, d) ==
    IF n.sgn = 0 THEN FloatZero
    ELSE Val({ [sgn |-> n.sgn * d.sgn, mant |-> r.mant, exp |-> r.exp]
             : r \in {TrueDivMag(n.mag, d.mag)} })

\* Fraction.__float__
FractionToFloat(x) ==
    Val({ TrueDiv(a.numerator, a.denominator) : a \in {x} })

\* float comparison: -1, 0 or 1 as x < y, x = y or x > y
FloatCmp(x, y) ==
    IF x.sgn # y.sgn THEN (IF x.sgn < y.sgn THEN -1 ELSE 1)
    ELSE IF x.sgn = 0 THEN 0
    ELSE IF x.exp # y.exp THEN (IF x.exp > y.exp THEN x.sgn ELSE -x.sgn)
    ELSE x.sgn * NatCmp(x.mant, y.mant)

(***************************************************************************)
(* Lists.                                                                  *)
(***************************************************************************)
\* the elements of seq in the order of their ranks
ListByRank(seq, rank) ==
    [p \in 1..Len(seq) |-> seq[CHOOSE j \in 1..Len(seq) : rank[j] = p]]

\* list.sort(key=...) given the list and the key of each of its elements,
\* which sort computes once: the elements are ordered by key with <, and
\* elements with equal keys keep their order (stable). A list whose keys
\* already ascend is left as it is.
ListSort(list, keylist) ==
    Val({ IF \A j \in 1..(Len(keys) - 1) : FloatCmp(keys[j], keys[j + 1]) <= 0
          THEN seq
          ELSE Val({ ListByRank(seq, rank) \o <<>>
                   : rank \in {[j \in 1..Len(seq) |->
                                  Cardinality({h \in 1..Len(seq) :
                                      \/ FloatCmp(keys[h], keys[j]) < 0
                                      \/ FloatCmp(keys[h], keys[j]) = 0 /\ h < j}) + 1]
                               \o <<>>} })
        : seq \in {list}, keys \in {keylist \o <<>>} })

(***************************************************************************)
(* The two classes and their constructions.                                *)
(***************************************************************************)
Systems == {"PythagoreanSystem", "SistemaPitagorico"}

\* def __init__(self, fundamental=100, octave=1) / (self, fondamentale=32, ottava=2)
DefaultFundamental(self) ==
    IF self = "PythagoreanSystem" THEN 100 ELSE 32

DefaultOctave(self) ==
    IF self = "PythagoreanSystem" THEN 1 ELSE 2

MaxFundamental == 0

\* the values a caller passes for fundamental: the defaults, zero, a negative
\* value and the small positive ones; and for octave: the defaults
Fundamentals ==
    (-1..MaxFundamental) \cup {DefaultFundamental(s) : s \in Systems}

Octaves ==
    {DefaultOctave(s) : s \in Systems}

\* A name is a function from the constructions in which it is bound: an
\* attribute or a local exists for a construction once it has been assigned.
Unbound ==
    [s \in {} |-> 0]

\* name = value in the construction self
Bind(f, self, value) ==
    (self :> value) @@ f

\* the name goes out of scope in the construction self
Unbind(f, self) ==
    [s \in (DOMAIN f) \ {self} |-> f[s]]

VARIABLES
    pc,               \* where each construction stands
    args,             \* the arguments of the call of __init__
    self_fundamental, \* self.fundamental / self.fondamentale
    self_ratios,      \* self.ratios / self.rapporti
    self_frequencies, \* self.frequencies / self.frequenze
    ratios,           \* the local list of generate_ratios
    next_ratio,       \* the local next_ratio of generate_ratios
    loop_i            \* the next value of range(1, 53)

vars == <<pc, args, self_fundamental, self_ratios, self_frequencies,
          ratios, next_ratio, loop_i>>

Init ==
    /\ pc = [s \in Systems |-> "idle"]
    /\ args = Unbound
    /\ self_fundamental = Unbound
    /\ self_ratios = [s \in Systems |-> <<>>]
    /\ self_frequencies = [s \in Systems |-> <<>>]
    /\ ratios = [s \in Systems |-> <<>>]
    /\ next_ratio = Unbound
    /\ loop_i = [s \in Systems |-> 0]

\* range(1, 53)
RangeStart == 1

RangeStop_short == 53 - 1

RangeStop == 53

fifth_ratio_twelfth ==
    Fraction(IntOf(3), IntOf(1))

fifth_ratio ==
    Fraction(IntOf(3), IntOf(2))

octave_bound_three ==
    FractionOfInt(3)

octave_bound ==
    FractionOfInt(2)

\* the fundamental without the octave factor
EffectiveFundamental_no_octave(fundamental, octave) ==
    fundamental

\* self.fundamental = fundamental * octave
EffectiveFundamental(fundamental, octave) ==
    fundamental * octave

\* the call PythagoreanSystem(fundamental, octave): __init__ up to the call
\* of generate_ratios
init(self, fundamental, octave) ==
    /\ pc[self] = "idle"
    /\ args' = Bind(args, self, [fundamental |-> fundamental, octave |-> octave])
    /\ self_fundamental' = Bind(self_fundamental, self, EffectiveFundamental(fundamental, octave))
    /\ pc' = [pc EXCEPT ![self] = "generate_ratios"]
    /\ UNCHANGED <<self_ratios, self_frequencies, ratios, next_ratio, loop_i>>

\* the list started at the fifth, without the unison
generate_ratios_from_fifth(self) ==
    /\ pc[self] = "generate_ratios"
    /\ ratios' = [ratios EXCEPT ![self] = <<fifth_ratio>>]
    /\ loop_i' = [loop_i EXCEPT ![self] = RangeStart]
    /\ pc' = [pc EXCEPT ![self] = "for"]
    /\ UNCHANGED <<args, self_fundamental, self_ratios, self_frequencies, next_ratio>>

\* ratios = [Fraction(1, 1)]; fifth_ratio = Fraction(3, 2)
generate_ratios(self) ==
    /\ pc[self] = "generate_ratios"
    /\ ratios' = [ratios EXCEPT ![self] = <<Fraction(IntOf(1), IntOf(1))>>]
    /\ loop_i' = [loop_i EXCEPT ![self] = RangeStart]
    /\ pc' = [pc EXCEPT ![self] = "for"]
    /\ UNCHANGED <<args, self_fundamental, self_ratios, self_frequencies, next_ratio>>

\* the step taken from ratios[0] in place of ratios[-1]
for_body_from_first(self) ==
    /\ pc[self] = "for"
    /\ loop_i[self] < RangeStop
    /\ loop_i' = [loop_i EXCEPT ![self] = @ + 1]
    /\ next_ratio' = Bind(next_ratio, self, FractionMul(ratios[self][1], fifth_ratio))
    /\ pc' = [pc EXCEPT ![self] = "while"]
    /\ UNCHANGED <<args, self_fundamental, self_ratios, self_frequencies, ratios>>

\* for _ in range(1, 53): next_ratio = ratios[-1] * fifth_ratio
for_body(self) ==
    /\ pc[self] = "for"
    /\ loop_i[self] < RangeStop
    /\ loop_i' = [loop_i EXCEPT ![self] = @ + 1]
    /\ next_ratio' = Bind(next_ratio, self,
                           FractionMul(ratios[self][Len(ratios[self])], fifth_ratio))
    /\ pc' = [pc EXCEPT ![self] = "while"]
    /\ UNCHANGED <<args, self_fundamental, self_ratios, self_frequencies, ratios>>

\* next_ratio >= 2
while_cond(r) ==
    FractionCmp(r, octave_bound) >= 0

\* while next_ratio >= 2: next_ratio /= 2
while_body(self) ==
    /\ pc[self] = "while"
    /\ while_cond(next_ratio[self])
    /\ next_ratio' = [next_ratio EXCEPT ![self] = FractionDiv(@, FractionOfInt(2))]
    /\ UNCHANGED <<pc, args, self_fundamental, self_ratios, self_frequencies, ratios, loop_i>>

\* the while loop ends: ratios.append(next_ratio)
append(self) ==
    /\ pc[self] = "while"
    /\ ~while_cond(next_ratio[self])
    /\ ratios' = [ratios EXCEPT ![self] = Append(@, next_ratio[self])]
    /\ pc' = [pc EXCEPT ![self] = "for"]
    /\ UNCHANGED <<args, self_fundamental, self_ratios, self_frequencies, next_ratio, loop_i>>

\* the range is exhausted: return ratios, and self.ratios = self.generate_ratios()
return_ratios(self) ==
    /\ pc[self] = "for"
    /\ loop_i[self] >= RangeStop
    /\ self_ratios' = [self_ratios EXCEPT ![self] = ratios[self]]
    /\ ratios' = [ratios EXCEPT ![self] = <<>>]
    /\ next_ratio' = Unbind(next_ratio, self)
    /\ loop_i' = [loop_i EXCEPT ![self] = 0]
    /\ pc' = [pc EXCEPT ![self] = "sort_ratios"]
    /\ UNCHANGED <<args, self_fundamental, self_frequencies>>

\* the key with // in place of /
sort_key_floordiv(ratio) ==
    TrueDiv([sgn |-> ratio.numerator.sgn,
             mag |-> NatDivMod(ratio.numerator.mag, ratio.denominator.mag).quo],
            IntOf(1))

\* key=lambda ratio: ratio.numerator / ratio.denominator
sort_key(ratio) ==
    TrueDiv(ratio.numerator, ratio.denominator)

\* the sort keyed by the frequency of each ratio
sort_ratios_by_frequency(self) ==
    /\ pc[self] = "sort_ratios"
    /\ self_ratios' = [self_ratios EXCEPT ![self] =
           ListSort(@, [j \in 1..Len(@) |->
               FractionToFloat(FractionMul(@[j], FractionOfInt(self_fundamental[self])))])]
    /\ pc' = [pc EXCEPT ![self] = "calculate_frequencies"]
    /\ UNCHANGED <<args, self_fundamental, self_frequencies, ratios, next_ratio, loop_i>>

\* the sort applied to self.ratios[1:]
sort_ratios_tail(self) ==
    /\ pc[self] = "sort_ratios"
    /\ self_ratios' = [self_ratios EXCEPT ![self] =
           ListSort(Tail(@), [j \in 1..(Len(@) - 1) |-> sort_key(@[j + 1])])]
    /\ pc' = [pc EXCEPT ![self] = "calculate_frequencies"]
    /\ UNCHANGED <<args, self_fundamental, self_frequencies, ratios, next_ratio, loop_i>>

\* self.ratios.sort(key=lambda ratio: ratio.numerator / ratio.denominator)
sort_ratios(self) ==
    /\ pc[self] = "sort_ratios"
    /\ self_ratios' = [self_ratios EXCEPT ![self] =
           ListSort(@, [j \in 1..Len(@) |-> sort_key(@[j])])]
    /\ pc' = [pc EXCEPT ![self] = "calculate_frequencies"]
    /\ UNCHANGED <<args, self_fundamental, self_frequencies, ratios, next_ratio, loop_i>>

\* the fundamental divided by the ratio
frequency_divided(ratio, fundamental) ==
    FractionToFloat(FractionDiv(FractionOfInt(fundamental), ratio))

\* float(ratio * self.fundamental)
frequency(ratio, fundamental) ==
    FractionToFloat(FractionMul(ratio, FractionOfInt(fundamental)))

\* self.frequencies = [float(ratio * self.fundamental) for ratio in self.ratios]
calculate_frequencies(self) ==
    /\ pc[self] = "calculate_frequencies"
    /\ self_frequencies' = [self_frequencies EXCEPT ![self] =
           [j \in 1..Len(self_ratios[self]) |->
               frequency(self_ratios[self][j], self_fundamental[self])]]
    /\ pc' = [pc EXCEPT ![self] = "done"]
    /\ UNCHANGED <<args, self_fundamental, self_ratios, ratios, next_ratio, loop_i>>

\* the steps of a construction that has begun
Step(self) ==
    \/ generate_ratios(self)
    \/ for_body(self)
    \/ while_body(self)
    \/ append(self)
    \/ return_ratios(self)
    \/ sort_ratios(self)
    \/ calculate_frequencies(self)

\* a run of one of the two modules: its class is constructed, once, while
\* the other module is not imported
construct(self) ==
    /\ \A t \in Systems \ {self} : pc[t] = "idle"
    /\ \E f \in Fundamentals, o \in Octaves : init(self, f, o)

Next ==
    \E self \in Systems :
        \/ construct(self)
        \/ Step(self)

Spec ==
    Init /\ [][Next]_vars

\* both modules imported by one process, PythagoreanSystem first: the
\* construction of the second begins when the first is complete
construct_in_turn(self) ==
    /\ \A t \in Systems \ {self} :
           pc[t] = (IF self = "PythagoreanSystem" THEN "idle" ELSE "done")
    /\ \E f \in Fundamentals, o \in Octaves : init(self, f, o)

NextBoth ==
    \E self \in Systems :
        \/ construct_in_turn(self)
        \/ Step(self)

SpecBoth ==
    Init /\ [][NextBoth]_vars

(***************************************************************************)
(* Exact values, for the properties: a ratio n / d and a float             *)
(* mant * 2^exp are compared as rationals, by cross-multiplication.        *)
(***************************************************************************)
One == <<1>>

\* every list of ratios a construction holds
RatioLists ==
    {ratios[s] : s \in Systems} \cup {self_ratios[s] : s \in Systems}

\* 1 <= n / d < 2
InOctave(r) ==
    /\ r.numerator.sgn = 1
    /\ r.denominator.sgn = 1
    /\ NatCmp(r.numerator.mag, r.denominator.mag) >= 0
    /\ NatCmp(r.numerator.mag, NatShl(r.denominator.mag, 1)) < 0

\* C1: every ratio of every list of ratios, while it is generated, when it is
\* returned, after the sort and when the construction is complete, satisfies
\* 1 <= value < 2 as an exact rational.
C1_RatiosInOctave ==
    \A l \in RatioLists : \A i \in 1..Len(l) : InOctave(l[i])

C1_Witness ==
    \E s \in Systems :
        /\ pc[s] = "done"
        /\ Len(self_ratios[s]) = 53
        /\ \E i \in 1..53 : self_ratios[s][i].denominator.mag # One

\* n / d is in lowest terms, for d a power of two: d is 1 or n is odd
LowestTerms(r) ==
    /\ r.denominator.mag = NatShl(One, NatBitLength(r.denominator.mag) - 1)
    /\ r.denominator.mag = One \/ ~NatIsEven(r.numerator.mag)

\* C2: the list returned by generate_ratios, before the sort, has exactly 53
\* entries in lowest terms; the first is 1/1 and the 53 are pairwise distinct
\* (so none of the other 52 is 1/1).
C2_GeneratedDistinct ==
    \A s \in Systems :
        pc[s] = "sort_ratios" =>
            /\ Len(self_ratios[s]) = 53
            /\ self_ratios[s][1] = [numerator |-> IntOf(1), denominator |-> IntOf(1)]
            /\ \A i \in 1..53 : LowestTerms(self_ratios[s][i])
            /\ \A i \in 1..53, j \in 1..53 :
                   i < j => self_ratios[s][i] # self_ratios[s][j]

C2_Witness ==
    \E s \in Systems :
        /\ pc[s] = "sort_ratios"
        /\ Len(self_ratios[s]) > 1

\* a <= b as exact rationals, for positive denominators
RatioLeq(a, b) ==
    IntCmp(IntMul(a.numerator, b.denominator), IntMul(b.numerator, a.denominator)) <= 0

\* C3: once sort_ratios has run, the ratios are non-decreasing by exact
\* rational value: value(ratios[i]) <= value(ratios[i+1]) for every i.
C3_SortedByValue ==
    \A s \in Systems :
        pc[s] \in {"calculate_frequencies", "done"} =>
            \A i \in 1..(Len(self_ratios[s]) - 1) :
                RatioLeq(self_ratios[s][i], self_ratios[s][i + 1])

\* the sort has run and has moved a ratio: the second of the generated list
\* is 3/2, the second of the sorted list is not
C3_Witness ==
    \E s \in Systems :
        /\ pc[s] = "calculate_frequencies"
        /\ Len(self_ratios[s]) = 53
        /\ self_ratios[s][2] # fifth_ratio

\* the multiset of the elements of a list
BagOfSeq(seq) ==
    [x \in {seq[i] : i \in 1..Len(seq)} |-> Cardinality({i \in 1..Len(seq) : seq[i] = x})]

\* C4: sort_ratios permutes the list: the multiset of the exact
\* (numerator, denominator) pairs and the length are the same before and
\* after the step.
C4_SortIsPermutation ==
    [][\A s \in Systems :
          (pc[s] = "sort_ratios" /\ pc'[s] = "calculate_frequencies") =>
              /\ Len(self_ratios'[s]) = Len(self_ratios[s])
              /\ Len(self_ratios'[s]) = 53
              /\ BagOfSeq(self_ratios'[s]) = BagOfSeq(self_ratios[s])]_vars

C4_Witness ==
    \E s \in Systems :
        /\ pc[s] = "done"
        /\ self_ratios[s][53] # self_ratios[s][1]
        /\ self_ratios[s][2].numerator.mag # NatOf(3)

\* the construction arguments of s multiplied as integers
ArgsProduct(s) ==
    args[s].fundamental * args[s].octave

\* |a - b| for naturals
NatDist(x, y) ==
    Val({ IF NatCmp(a, b) >= 0 THEN NatSub(a, b) ELSE NatSub(b, a) : a \in {x}, b \in {y} })

\* 2 * |x| * d and 2 * |n|, both scaled by 2^max(0, -x.exp), and the scaled
\* d * 2^x.exp: the terms of |x - n / d| <= 2^x.exp / 2 without fractions
ErrorTerms(x, n, d) ==
    IF x.exp <= 0
    THEN [float |-> NatShl(NatMul(x.mant, d), 1),
          exact |-> NatShl(n.mag, 1 - x.exp),
          ulp   |-> d]
    ELSE [float |-> NatShl(NatMul(x.mant, d), x.exp + 1),
          exact |-> NatShl(n.mag, 1),
          ulp   |-> NatShl(d, x.exp)]

\* x is a double nearest to n / d: zero for n = 0, and otherwise of the sign
\* of n, with a 53-bit significand, and within half a unit in the last place
NearestDouble(x, n, d) ==
    IF n.sgn = 0 THEN x.sgn = 0 /\ x.mant = <<>>
    ELSE /\ x.sgn = n.sgn
         /\ NatBitLength(x.mant) = 53
         /\ \A t \in {ErrorTerms(x, n, d)} :
                NatCmp(NatDist(t.float, t.exact), t.ulp) <= 0

\* x is n / d exactly
ExactDouble(x, n, d) ==
    IF n.sgn = 0 THEN x.sgn = 0 /\ x.mant = <<>>
    ELSE /\ x.sgn = n.sgn
         /\ \A t \in {ErrorTerms(x, n, d)} : t.float = t.exact

\* the exact numerator of ratio * (fundamental * octave) over ratio.denominator
ScaledNumerator(ratio, s) ==
    IntMul(ratio.numerator, IntOf(ArgsProduct(s)))

FloatLeq(x, y) ==
    LET e == NatMin(x.exp, y.exp)
    IN  NatCmp(NatShl(x.mant, x.exp - e), NatShl(y.mant, y.exp - e)) <= 0

\* C6: with a positive effective fundamental the frequencies are
\* non-decreasing with the index.
C6_FrequenciesAscend ==
    \A s \in Systems :
        (pc[s] = "done" /\ ArgsProduct(s) > 0) =>
            /\ \A i \in 1..Len(self_frequencies[s]) : self_frequencies[s][i].sgn = 1
            /\ \A i \in 1..(Len(self_frequencies[s]) - 1) :
                   FloatLeq(self_frequencies[s][i], self_frequencies[s][i + 1])

C6_Witness ==
    \E s \in Systems :
        /\ pc[s] = "done"
        /\ ArgsProduct(s) > 0
        /\ Len(self_frequencies[s]) = 53
        /\ self_frequencies[s][1] # self_frequencies[s][53]

\* the positive float x against the natural k: -1, 0 or 1
FloatCmpNat(x, k) ==
    IF x.exp >= 0 THEN NatCmp(NatShl(x.mant, x.exp), k)
    ELSE NatCmp(x.mant, NatShl(k, -x.exp))

C8_RatiosIndependent ==
    \A s \in Systems, t \in Systems :
        /\ (pc[s] \in {"calculate_frequencies", "done"} /\ pc[t] \in {"calculate_frequencies", "done"})
               => self_ratios[s] = self_ratios[t]
        /\ (pc[s] = "done" /\ pc[t] = "done" /\ args[s] = args[t])
               => self_frequencies[s] = self_frequencies[t]

\* PythagoreanSystem(100, 1) and SistemaPitagorico(32, 2), both complete
C8_Witness ==
    /\ \A s \in Systems : pc[s] = "done"
    /\ \A s \in Systems :
           args[s] = [fundamental |-> DefaultFundamental(s), octave |-> DefaultOctave(s)]
    /\ self_frequencies["PythagoreanSystem"] # self_frequencies["SistemaPitagorico"]

\* 3/2 <= n / d < 3
InStepRange(r) ==
    /\ r.numerator.sgn = 1
    /\ r.denominator.sgn = 1
    /\ NatCmp(NatShl(r.numerator.mag, 1), NatMulSmall(r.denominator.mag, 3)) >= 0
    /\ NatCmp(r.numerator.mag, NatMulSmall(r.denominator.mag, 3)) < 0

\* r2 is r / 2
IsHalf(r2, r) ==
    NatMul(NatShl(r2.numerator.mag, 1), r.denominator.mag)
        = NatMul(r.numerator.mag, r2.denominator.mag)

\* what is left of generate_ratios: three units for every iteration of the
\* for loop not yet begun, and within an iteration two before a halving that
\* is due and one before the append
Variant(at, i, r) ==
    IF at = "for" THEN 3 * (53 - i)
    ELSE 3 * (53 - i) + (IF InOctave(r) THEN 1 ELSE 2)

\* the steps of generate_ratios: the product of a step is in [3/2, 3); a
\* halving halves a value of at least 2 to one in [1, 2), after which the
\* loop condition is false; the value appended is in [1, 2); every step
\* inside the loops lowers the variant, which is never negative; the list
\* returned has 53 entries
GenerationStep(s) ==
    /\ (pc[s] = "for" /\ pc'[s] = "while") =>
           InStepRange(next_ratio'[s])
    /\ (pc[s] = "while" /\ pc'[s] = "while") =>
           /\ InStepRange(next_ratio[s])
           /\ ~InOctave(next_ratio[s])
           /\ IsHalf(next_ratio'[s], next_ratio[s])
           /\ InOctave(next_ratio'[s])
           /\ ~while_cond(next_ratio'[s])
    /\ (pc[s] = "while" /\ pc'[s] = "for") =>
           /\ InOctave(next_ratio[s])
           /\ ratios'[s] = Append(ratios[s], next_ratio[s])
    /\ (pc[s] \in {"for", "while"} /\ pc'[s] \in {"for", "while"}) =>
           /\ Variant(pc'[s], loop_i'[s], next_ratio'[s]) < Variant(pc[s], loop_i[s], next_ratio[s])
           /\ Variant(pc'[s], loop_i'[s], next_ratio'[s]) >= 0
    /\ (pc[s] = "for" /\ pc'[s] = "sort_ratios") =>
           /\ Variant(pc[s], loop_i[s], next_ratio[s]) = 0
           /\ Len(ratios[s]) = 53
           /\ self_ratios'[s] = ratios[s]

\* C9: every step's product is in [3/2, 3), so a step halves at most once;
\* every inner loop ends, and generation as a whole ends, after exactly 52
\* appends after the initial 1/1: each step of the loops lowers a bounded
\* variant.
C9_OneHalvingAndTermination ==
    [][\A s \in Systems : GenerationStep(s)]_vars

\* a step that has halved: its value is below 3/2, which no product is
C9_Witness ==
    \E s \in Systems :
        /\ pc[s] = "while"
        /\ Len(ratios[s]) > 1
        /\ InOctave(next_ratio[s])
        /\ ~InStepRange(next_ratio[s])

RECURSIVE Pow3(_)
\* 3^k
Pow3(k) ==
    IF k = 0 THEN One
    ELSE IF k % 2 = 1 THEN NatMulSmall(Pow3(k - 1), 3)
    ELSE Val({ NatMul(h, h) : h \in {Pow3(k \div 2)} })

\* 3^0 .. 3^52
PowersOfThree ==
    [j \in 1..53 |-> Pow3(j - 1)] \o <<>>

\* floor(log2(n)) for n > 0
Log2(n) ==
    NatBitLength(n) - 1

\* the entry of generation index k (from 0) is 3^k / 2^m with
\* 2^m <= 3^k < 2^(m+1)
IsOctaveReduced(r, k) ==
    /\ r.numerator.sgn = 1
    /\ r.denominator.sgn = 1
    /\ r.numerator.mag = PowersOfThree[k + 1]
    /\ r.denominator.mag = NatShl(One, Log2(r.denominator.mag))
    /\ Log2(r.denominator.mag) = Log2(PowersOfThree[k + 1])

\* C10: in generation order the k-th entry (k = 0..52) is 3^k / 2^m, in
\* lowest terms, with m the integer for which 2^m <= 3^k < 2^(m+1), and m
\* does not decrease with k.
C10_PowersOfThree ==
    \A s \in Systems :
        LET l == IF pc[s] = "sort_ratios" THEN self_ratios[s] ELSE ratios[s]
        IN  /\ Len(l) <= Len(PowersOfThree)
            /\ \A j \in 1..Len(l) : IsOctaveReduced(l[j], j - 1)
            /\ \A j \in 1..(Len(l) - 1) :
                   Log2(l[j].denominator.mag) <= Log2(l[j + 1].denominator.mag)

C10_Witness ==
    \E s \in Systems :
        /\ pc[s] = "sort_ratios"
        /\ Len(self_ratios[s]) = 53
        /\ Log2(self_ratios[s][53].denominator.mag) > 80

====
